---- MODULE Spec2Model ----
(***************************************************************************)
(* Model of src/streamer.py: the YouTubeLiveStreamer object, its start-up  *)
(* (configuration, ffmpeg check, asset download, command construction),    *)
(* the supervision loop of start_streaming, the signal handler and the     *)
(* environment the loop observes (the ffmpeg child, its output pipe, the   *)
(* clock).                                                                 *)
(*                                                                         *)
(* Python None is modelled by the empty tuple and a present value v by     *)
(* <<v>>, so that "absent" and "empty string" stay different values.       *)
(***************************************************************************)
EXTENDS Integers, Sequences, FiniteSets, TLC

VARIABLES
    pc,             \* position of the main thread in main()/start_streaming()
    env,            \* the process environment read by os.getenv
    stream_key,     \* self.stream_key
    video_url,      \* self.video_url
    video_quality,  \* self.video_quality
    settings,       \* self.settings
    rtmp_url,       \* self.rtmp_url
    file,           \* stream_video.mp4 on the local filesystem
    net_requests,   \* number of requests.get calls made by this run
    cmd,            \* the local cmd of start_streaming
    retry_count,    \* the local retry_count of start_streaming
    process,        \* self.process: None or a Popen handle
    child,          \* the OS process behind self.process
    newborn,        \* Popen has created a child whose handle is not stored yet
    orphans,        \* kinds of earlier children that are still alive
    pipe,           \* lines written by the child and not yet read
    idle,           \* time.time() - last_output_time, in seconds
    silent,         \* seconds since the child last wrote a line (or was spawned)
    return_code,    \* the local return_code of start_streaming
    outcome,        \* how the current attempt ended
    sleep_secs,     \* the argument of the time.sleep in progress
    all_failed,     \* every attempt so far ended by its child exiting non-zero
    signalled_at,   \* pc at which handle_shutdown ran, "none" before
    exit_status     \* exit status of the program, None while it runs

vars == <<pc, env, stream_key, video_url, video_quality, settings, rtmp_url,
          file, net_requests, cmd, retry_count, process, child, newborn,
          orphans, pipe, idle, silent, return_code, outcome, sleep_secs,
          all_failed, signalled_at, exit_status>>

None == <<>>
Some(v) == <<v>>

Min(a, b) == IF a <= b THEN a ELSE b

(***************************************************************************)
(* Bounds of the model.                                                    *)
(***************************************************************************)
\* seconds of wall-clock time that pass in one step of the clock
TickLen == 60
\* number of unread lines the pipe can hold
MaxPipe == 1

(***************************************************************************)
(* Program constants.                                                      *)
(***************************************************************************)
max_retries == 50
StallTimeout == 120
BackoffStep == 5
BackoffCap == 30
ErrorSleep == 10
SIGTERM == 15

\* the clock saturates once both stall thresholds have been passed
MaxElapsed == StallTimeout + 2 * TickLen

(***************************************************************************)
(* Strings that the code slices or formats are kept as tuples of           *)
(* characters; Text joins such a tuple into the string the child receives. *)
(***************************************************************************)
Digits == <<"0", "1", "2", "3", "4", "5", "6", "7", "8", "9">>

DigitValue(c) == (CHOOSE i \in 1..10 : Digits[i] = c) - 1

RECURSIVE Text(_)
Text(chars) ==
    IF chars = <<>> THEN "" ELSE Head(chars) \o Text(Tail(chars))

\* int(s) for a string of decimal digits
RECURSIVE ParseInt(_)
ParseInt(chars) ==
    IF chars = <<>> THEN 0
    ELSE 10 * ParseInt(SubSeq(chars, 1, Len(chars) - 1))
         + DigitValue(chars[Len(chars)])

\* str(n) for n >= 0
RECURSIVE Str(_)
Str(n) ==
    IF n < 10 THEN Digits[n + 1]
    ELSE Str(n \div 10) \o Digits[(n % 10) + 1]

(***************************************************************************)
(* __init__: configuration and the quality table.                          *)
(***************************************************************************)
qualities ==
    [q \in {"360p", "480p", "720p", "1080p"} |->
        CASE q = "360p"  -> [size |-> "640x360",   bitrate |-> <<"8", "0", "0", "k">>,      fps |-> 25]
          [] q = "480p"  -> [size |-> "854x480",   bitrate |-> <<"1", "2", "0", "0", "k">>, fps |-> 25]
          [] q = "720p"  -> [size |-> "1280x720",  bitrate |-> <<"2", "5", "0", "0", "k">>, fps |-> 30]
          [] q = "1080p" -> [size |-> "1920x1080", bitrate |-> <<"4", "5", "0", "0", "k">>, fps |-> 30]]

\* os.getenv(name, default)
GetEnv(value, default) == IF value = None THEN default ELSE value

\* "v is None" in place of "not v": an empty value passes
Missing_none_only(v) == v = None

\* Python's "not v" for an optional string
Missing(v) == v = None \/ v = Some("")

\* self.qualities.get(label) with the first preset as the fallback
ResolveSettings_first_preset(label) ==
    IF label \in DOMAIN qualities THEN qualities[label] ELSE qualities["360p"]

\* self.qualities.get(label, self.qualities['720p'])
ResolveSettings(label) ==
    IF label \in DOMAIN qualities THEN qualities[label] ELSE qualities["720p"]

RtmpUrl(key) == "rtmp://a.rtmp.youtube.com/live2/" \o key

(***************************************************************************)
(* build_ffmpeg_command                                                    *)
(***************************************************************************)
\* '-re', '-stream_loop', '-1', '-i', video_file
InputArgs(video_file) ==
    << "ffmpeg",
       "-re",
       "-stream_loop", "-1",
       "-i", video_file >>

\* Video encoding
VideoArgs(s) ==
    << "-c:v", "libx264",
       "-preset", "veryfast",
       "-b:v", Text(s.bitrate),
       "-maxrate", Text(s.bitrate),
       "-bufsize", Str(ParseInt(SubSeq(s.bitrate, 1, Len(s.bitrate) - 1)) * 2) \o "k",
       "-s", s.size,
       "-r", Str(s.fps),
       "-g", Str(s.fps * 2),
       "-pix_fmt", "yuv420p" >>

\* Audio encoding
AudioArgs ==
    << "-c:a", "aac",
       "-b:a", "128k",
       "-ar", "44100",
       "-ac", "2" >>

\* Streaming optimizations for reconnection
StreamArgs ==
    << "-f", "flv",
       "-flvflags", "no_duration_filesize",
       "-reconnect", "1",
       "-reconnect_streamed", "1",
       "-reconnect_delay_max", "5" >>

\* build_ffmpeg_command with the output URL placed before the container and
\* reconnection options
build_ffmpeg_command_url_early(video_file, s, url) ==
    InputArgs(video_file) \o VideoArgs(s) \o AudioArgs \o <<url>> \o StreamArgs

build_ffmpeg_command(video_file, s, url) ==
    InputArgs(video_file) \o VideoArgs(s) \o AudioArgs \o StreamArgs \o <<url>>

VideoFile == "stream_video.mp4"

(***************************************************************************)
(* The inputs of a run.                                                    *)
(***************************************************************************)
Keys == {None, Some(""), Some("abcd-efgh-ijkl-mnop")}
Urls == {None, Some(""), Some("https://example.com/video.mp4")}
QualityLabels == {None, Some("480p"), Some("4k")}
FileStates == {"absent", "empty", "nonempty"}
Lines == {"progress", "error", "other"}

\* every line taken as a progress line
is_progress_any_line(line) == line \in {"progress", "error", "other"}

\* 'frame=' in line or 'speed=' in line
is_progress(line) == line = "progress"
\* 'error' in line.lower() or 'failed' in line.lower()
is_error(line) == line = "error"

NoChild == [alive |-> FALSE, term |-> FALSE, code |-> None]
FreshChild == [alive |-> TRUE, term |-> FALSE, code |-> None]

Init ==
    /\ pc = "init"
    /\ env \in [YOUTUBE_STREAM_KEY : Keys, VIDEO_URL : Urls, VIDEO_QUALITY : QualityLabels]
    /\ stream_key = None
    /\ video_url = None
    /\ video_quality = None
    /\ settings = None
    /\ rtmp_url = None
    /\ file \in FileStates
    /\ net_requests = 0
    /\ cmd = <<>>
    /\ retry_count = 0
    /\ process = None
    /\ child = NoChild
    /\ newborn = FALSE
    /\ orphans = {}
    /\ pipe = <<>>
    /\ idle = 0
    /\ silent = 0
    /\ return_code = None
    /\ outcome = "none"
    /\ sleep_secs = 0
    /\ all_failed = TRUE
    /\ signalled_at = "none"
    /\ exit_status = None

configVars == <<env, stream_key, video_url, video_quality, settings, rtmp_url>>
loopVars == <<retry_count, return_code, outcome, sleep_secs, all_failed>>
childVars == <<process, child, newborn, orphans, pipe, idle, silent>>

\* sys.exit(status) reaching the interpreter's top level
Exit(status) ==
    /\ pc' = "Exited"
    /\ exit_status' = Some(status)

(***************************************************************************)
(* main() up to the supervision loop.                                      *)
(***************************************************************************)

\* YouTubeLiveStreamer.__init__: read the environment, validate, resolve the
\* settings, install the signal handlers.
Construct ==
    /\ pc = "init"
    /\ stream_key' = env.YOUTUBE_STREAM_KEY
    /\ video_url' = env.VIDEO_URL
    /\ video_quality' = GetEnv(env.VIDEO_QUALITY, Some("720p"))
    /\ IF Missing(env.YOUTUBE_STREAM_KEY) \/ Missing(env.VIDEO_URL)
       THEN /\ Exit(1)
            /\ UNCHANGED <<settings, rtmp_url>>
       ELSE /\ rtmp_url' = Some(RtmpUrl(env.YOUTUBE_STREAM_KEY[1]))
            /\ settings' = Some(ResolveSettings(video_quality'[1]))
            /\ pc' = "check_ffmpeg"
            /\ UNCHANGED exit_status
    /\ UNCHANGED <<env, file, net_requests, cmd, signalled_at>>
    /\ UNCHANGED loopVars
    /\ UNCHANGED childVars

\* check_ffmpeg returns True: `ffmpeg -version` ran and returned 0.
CheckFfmpegFound ==
    /\ pc = "check_ffmpeg"
    /\ pc' = "download"
    /\ UNCHANGED <<file, net_requests, cmd, signalled_at, exit_status>>
    /\ UNCHANGED configVars
    /\ UNCHANGED loopVars
    /\ UNCHANGED childVars

\* check_ffmpeg: the run raised, timed out or returned non-zero; control is
\* past the try block and the function is about to return False.
CheckFfmpegNotFound ==
    /\ pc = "check_ffmpeg"
    /\ pc' = "ffmpeg_missing"
    /\ UNCHANGED <<file, net_requests, cmd, signalled_at, exit_status>>
    /\ UNCHANGED configVars
    /\ UNCHANGED loopVars
    /\ UNCHANGED childVars

\* check_ffmpeg returned False: start_streaming calls sys.exit(1).
ExitNoFfmpeg ==
    /\ pc = "ffmpeg_missing"
    /\ Exit(1)
    /\ UNCHANGED <<file, net_requests, cmd, signalled_at>>
    /\ UNCHANGED configVars
    /\ UNCHANGED loopVars
    /\ UNCHANGED childVars

\* os.path.exists(video_file)
FileExists(f) == f # "absent"

\* download_video up to the request: return the path of an existing file, or
\* start requests.get.
DownloadVideo ==
    /\ pc = "download"
    /\ IF FileExists(file)
       THEN /\ pc' = "build"
            /\ UNCHANGED net_requests
       ELSE /\ pc' = "fetching"
            /\ net_requests' = net_requests + 1
    /\ UNCHANGED <<file, cmd, signalled_at, exit_status>>
    /\ UNCHANGED configVars
    /\ UNCHANGED loopVars
    /\ UNCHANGED childVars

\* download_video: the response was written to the file (a body of zero bytes
\* leaves an empty file) and the path is returned.
FetchDone ==
    /\ pc = "fetching"
    /\ file' \in {"nonempty", "empty"}
    /\ pc' = "build"
    /\ UNCHANGED <<net_requests, cmd, signalled_at, exit_status>>
    /\ UNCHANGED configVars
    /\ UNCHANGED loopVars
    /\ UNCHANGED childVars

\* download_video: the request, the status check or a write raised; the file
\* is missing, or created and holding what was written so far; sys.exit(1).
FetchFailed ==
    /\ pc = "fetching"
    /\ file' \in FileStates
    /\ Exit(1)
    /\ UNCHANGED <<net_requests, cmd, signalled_at>>
    /\ UNCHANGED configVars
    /\ UNCHANGED loopVars
    /\ UNCHANGED childVars

\* cmd = self.build_ffmpeg_command(video_file); retry_count = 0
BuildCommand ==
    /\ pc = "build"
    /\ cmd' = build_ffmpeg_command(VideoFile, settings[1], rtmp_url[1])
    /\ retry_count' = 0
    /\ pc' = "spawn"
    /\ UNCHANGED <<file, net_requests, signalled_at, exit_status>>
    /\ UNCHANGED <<return_code, outcome, sleep_secs, all_failed>>
    /\ UNCHANGED configVars
    /\ UNCHANGED childVars

(***************************************************************************)
(* The supervision loop of start_streaming.                                *)
(***************************************************************************)

\* retry_count > max_retries in place of >=
RetryExhausted_off_by_one(rc) == rc > max_retries

\* retry_count >= max_retries
RetryExhausted(rc) == rc >= max_retries

\* retry_count * 5 without the cap
wait_time_uncapped(rc) == rc * BackoffStep

\* wait_time = min(retry_count * 5, 30)
wait_time(rc) == Min(rc * BackoffStep, BackoffCap)

\* Popen.terminate(): SIGTERM to a child that has not been reaped, nothing
\* for one that has exited.
Terminate(c) == IF c.alive THEN [c EXCEPT !.term = TRUE] ELSE c

\* Control has left the monitoring loop: the pipe of this attempt is read no
\* more and last_output_time is dead until the next spawn assigns it.
LeaveMonitoring ==
    /\ pipe' = <<>>
    /\ idle' = 0
    /\ silent' = 0

\* The loop body treating a return code of 0 as completion of the stream
AttemptEnded_zero_is_done(code, how) ==
    /\ LeaveMonitoring
    /\ return_code' = code
    /\ outcome' = how
    /\ retry_count' = retry_count + 1
    /\ all_failed' = FALSE
    /\ IF code = Some(0) \/ RetryExhausted(retry_count')
       THEN /\ Exit(0)
            /\ UNCHANGED sleep_secs
       ELSE /\ sleep_secs' = wait_time(retry_count')
            /\ pc' = "sleep"
            /\ UNCHANGED exit_status

\* The end of the loop body after the monitoring loop: record the return
\* code, count the attempt, stop when exhausted (the summary is printed,
\* main returns, the interpreter exits with 0), else start the backoff sleep.
AttemptEnded(code, how) ==
    /\ LeaveMonitoring
    /\ return_code' = code
    /\ outcome' = how
    /\ retry_count' = retry_count + 1
    /\ all_failed' = (all_failed /\ how \in {"exit", "eof"} /\ child.code \notin {None, Some(0)})
    /\ IF RetryExhausted(retry_count')
       THEN /\ Exit(0)
            /\ UNCHANGED sleep_secs
       ELSE /\ sleep_secs' = wait_time(retry_count')
            /\ pc' = "sleep"
            /\ UNCHANGED exit_status

\* except Exception without retry_count += 1
HandleException_no_count ==
    /\ LeaveMonitoring
    /\ outcome' = "raised"
    /\ retry_count' = retry_count
    /\ all_failed' = FALSE
    /\ IF RetryExhausted(retry_count')
       THEN /\ Exit(0)
            /\ UNCHANGED sleep_secs
       ELSE /\ sleep_secs' = ErrorSleep
            /\ pc' = "sleep"
            /\ UNCHANGED exit_status
    /\ UNCHANGED return_code

\* except Exception: count the attempt, stop when exhausted, else sleep 10 s.
HandleException ==
    /\ LeaveMonitoring
    /\ outcome' = "raised"
    /\ retry_count' = retry_count + 1
    /\ all_failed' = FALSE
    /\ IF RetryExhausted(retry_count')
       THEN /\ Exit(0)
            /\ UNCHANGED sleep_secs
       ELSE /\ sleep_secs' = ErrorSleep
            /\ pc' = "sleep"
            /\ UNCHANGED exit_status
    /\ UNCHANGED return_code

\* subprocess.Popen creates the child; its handle is not yet bound to
\* self.process.
PopenFork ==
    /\ pc = "spawn"
    /\ newborn' = TRUE
    /\ pc' = "popen"
    /\ UNCHANGED <<file, net_requests, cmd, signalled_at, exit_status>>
    /\ UNCHANGED <<process, child, orphans, pipe, idle, silent>>
    /\ UNCHANGED configVars
    /\ UNCHANGED loopVars

\* subprocess.Popen raises (executable missing, permission denied, ...).
PopenRaises ==
    /\ pc = "spawn"
    /\ HandleException
    /\ UNCHANGED <<file, net_requests, cmd, signalled_at>>
    /\ UNCHANGED <<process, child, newborn, orphans>>
    /\ UNCHANGED configVars

\* self.process = <the new handle>; last_output_time = time.time().  The
\* previous child, if it is still running, is no longer referenced.
PopenAssign ==
    /\ pc = "popen"
    /\ process' = Some("Popen")
    /\ orphans' = IF child.alive
                  THEN orphans \cup {IF child.term THEN "signalled" ELSE "unsignalled"}
                  ELSE orphans
    /\ child' = FreshChild
    /\ newborn' = FALSE
    /\ pipe' = <<>>
    /\ idle' = 0
    /\ silent' = 0
    /\ pc' = "readline"
    /\ UNCHANGED <<file, net_requests, cmd, signalled_at, exit_status>>
    /\ UNCHANGED configVars
    /\ UNCHANGED loopVars

\* One iteration of the monitoring loop: readline returns a line, a progress
\* line refreshes last_output_time, then poll(), then the timeout check.
ReadLine ==
    /\ pc = "readline"
    /\ pipe # <<>>
    /\ LET line == Head(pipe)
           since == IF is_progress(line) THEN 0 ELSE idle
       IN  IF ~child.alive
           THEN /\ AttemptEnded(child.code, "exit")
                /\ UNCHANGED child
           ELSE IF since > StallTimeout
           THEN /\ child' = Terminate(child)
                /\ AttemptEnded(None, "stall")
           ELSE /\ pipe' = Tail(pipe)
                /\ idle' = since
                /\ UNCHANGED <<child, pc, exit_status, silent>>
                /\ UNCHANGED loopVars
    /\ UNCHANGED <<file, net_requests, cmd, signalled_at>>
    /\ UNCHANGED <<process, newborn, orphans>>
    /\ UNCHANGED configVars

\* readline returns '' (the child has exited and the pipe is drained): the
\* for loop ends without a poll(), so returncode is still None.
ReadEof ==
    /\ pc = "readline"
    /\ pipe = <<>>
    /\ ~child.alive
    /\ AttemptEnded(None, "eof")
    /\ UNCHANGED <<file, net_requests, cmd, signalled_at>>
    /\ UNCHANGED <<process, child, newborn, orphans>>
    /\ UNCHANGED configVars

\* An exception raised inside the monitoring loop (for example a decoding
\* error in readline).
MonitorRaises ==
    /\ pc = "readline"
    /\ HandleException
    /\ UNCHANGED <<file, net_requests, cmd, signalled_at>>
    /\ UNCHANGED <<process, child, newborn, orphans>>
    /\ UNCHANGED configVars

\* time.sleep returns; the loop starts its next iteration.
Wake ==
    /\ pc = "sleep"
    /\ pc' = "spawn"
    /\ outcome' = "none"
    /\ return_code' = None
    /\ UNCHANGED <<retry_count, sleep_secs, all_failed>>
    /\ UNCHANGED <<file, net_requests, cmd, signalled_at, exit_status>>
    /\ UNCHANGED childVars
    /\ UNCHANGED configVars

(***************************************************************************)
(* handle_shutdown, run in the main thread when SIGTERM or SIGINT arrives  *)
(* after __init__ has installed it.                                        *)
(***************************************************************************)

\* The loop's handler catching SystemExit as it catches Exception
AfterSystemExit_caught_in_loop(at) ==
    IF at = "check_ffmpeg" THEN "ffmpeg_missing"
    ELSE IF at \in {"spawn", "popen", "readline", "sleep"} THEN "sleep"
    ELSE "Exited"

\* Where the SystemExit raised by sys.exit(0) takes control: the bare except
\* of check_ffmpeg catches it, every other frame lets it through.
AfterSystemExit(at) == IF at = "check_ffmpeg" THEN "ffmpeg_missing" ELSE "Exited"

\* handle_shutdown waiting for the child to exit before sys.exit(0)
HandleShutdown_waits ==
    /\ pc \notin {"init", "Exited"}
    /\ signalled_at' = pc
    /\ child' = IF process # None THEN Terminate(child) ELSE child
    /\ pc' = IF process # None /\ child.alive THEN pc ELSE AfterSystemExit(pc)
    /\ exit_status' = IF pc' = "Exited" THEN Some(0) ELSE exit_status
    /\ file' \in IF pc = "fetching" THEN FileStates ELSE {file}
    /\ UNCHANGED <<net_requests, cmd>>
    /\ UNCHANGED <<process, newborn, orphans, pipe, idle, silent>>
    /\ UNCHANGED configVars
    /\ UNCHANGED loopVars

HandleShutdown ==
    /\ pc \notin {"init", "Exited"}
    /\ signalled_at' = pc
    /\ child' = IF process # None THEN Terminate(child) ELSE child
    /\ pc' = AfterSystemExit(pc)
    /\ exit_status' = IF pc' = "Exited" THEN Some(0) ELSE exit_status
    /\ file' \in IF pc = "fetching" THEN FileStates ELSE {file}
    /\ UNCHANGED <<net_requests, cmd>>
    /\ UNCHANGED <<process, newborn, orphans, pipe, idle, silent>>
    /\ UNCHANGED configVars
    /\ UNCHANGED loopVars

(***************************************************************************)
(* The environment: the child, earlier children, the clock.                *)
(***************************************************************************)

\* The child writes a line to its output.
ChildWrites ==
    /\ pc = "readline"
    /\ child.alive
    /\ Len(pipe) < MaxPipe
    /\ \E line \in Lines : pipe' = Append(pipe, line)
    /\ silent' = 0
    /\ UNCHANGED <<pc, file, net_requests, cmd, signalled_at, exit_status>>
    /\ UNCHANGED <<process, child, newborn, orphans, idle>>
    /\ UNCHANGED configVars
    /\ UNCHANGED loopVars

\* The child exits: by itself with code 0 or 1, or killed by the SIGTERM it
\* was sent.
ChildExits ==
    /\ pc # "Exited"
    /\ child.alive
    /\ \E code \in IF child.term THEN {-SIGTERM} ELSE {0, 1} :
          child' = [child EXCEPT !.alive = FALSE, !.code = Some(code)]
    /\ UNCHANGED <<pc, file, net_requests, cmd, signalled_at, exit_status>>
    /\ UNCHANGED <<process, newborn, orphans, pipe, idle, silent>>
    /\ UNCHANGED configVars
    /\ UNCHANGED loopVars

\* The last earlier child of one kind exits.
OrphanExits ==
    /\ pc # "Exited"
    /\ \E kind \in orphans : orphans' = orphans \ {kind}
    /\ UNCHANGED <<pc, file, net_requests, cmd, signalled_at, exit_status>>
    /\ UNCHANGED <<process, child, newborn, pipe, idle, silent>>
    /\ UNCHANGED configVars
    /\ UNCHANGED loopVars

\* TickLen seconds pass while the main thread is blocked in readline.
Tick ==
    /\ pc = "readline"
    /\ pipe = <<>>
    /\ child.alive
    /\ idle' = Min(idle + TickLen, MaxElapsed)
    /\ silent' = Min(silent + TickLen, MaxElapsed)
    /\ UNCHANGED <<pc, file, net_requests, cmd, signalled_at, exit_status>>
    /\ UNCHANGED <<process, child, newborn, orphans, pipe>>
    /\ UNCHANGED configVars
    /\ UNCHANGED loopVars

Next ==
    \/ Construct
    \/ CheckFfmpegFound
    \/ CheckFfmpegNotFound
    \/ ExitNoFfmpeg
    \/ DownloadVideo
    \/ FetchDone
    \/ FetchFailed
    \/ BuildCommand
    \/ PopenFork
    \/ PopenRaises
    \/ PopenAssign
    \/ ReadLine
    \/ ReadEof
    \/ MonitorRaises
    \/ Wake
    \/ HandleShutdown
    \/ ChildWrites
    \/ ChildExits
    \/ OrphanExits
    \/ Tick

Spec == Init /\ [][Next]_vars

(***************************************************************************)
(* Properties.                                                             *)
(***************************************************************************)

InLoop == pc \in {"spawn", "popen", "readline", "sleep"}

\* C1: with max_retries = 50 and no termination signal, the loop never
\* starts an attempt once 50 have been counted, and a run that entered the
\* loop and ended without a signal ended after exactly 50 attempts with exit
\* status 0; when every attempt ended by its child exiting non-zero those
\* 50 attempts are 50 spawned children.
C1_StopsAfterMaxRetries ==
    /\ InLoop => retry_count < max_retries
    /\ (pc = "Exited" /\ signalled_at = "none" /\ cmd # <<>>)
          => (retry_count = max_retries /\ exit_status = Some(0))

C1_Witness ==
    /\ pc = "Exited"
    /\ signalled_at = "none"
    /\ all_failed
    /\ outcome \in {"exit", "eof"}
    /\ retry_count = max_retries
    /\ exit_status = Some(0)

\* C2: a child that is alive and has written nothing for more than
\* StallTimeout plus one tick has been sent a terminate request; the main
\* thread is never still waiting in readline for such a child.
C2_SilentChildTerminated ==
    (pc = "readline" /\ pipe = <<>> /\ child.alive /\ ~child.term)
        => silent <= StallTimeout + TickLen

\* C3: no step taken after handle_shutdown has run creates a child or
\* continues the loop, wherever the signal arrived.
C3_NoSpawnAfterSignal ==
    [][signalled_at # "none" =>
          /\ ~(newborn' /\ ~newborn)
          /\ process' = process
          /\ pc' \in {"Exited", "ffmpeg_missing"}]_vars

C3_Witness ==
    /\ pc = "Exited"
    /\ signalled_at = "sleep"
    /\ retry_count >= 1
    /\ exit_status = Some(0)

C5_FirstSpawnErrorFatal ==
    [][(pc = "spawn" /\ retry_count = 0 /\ outcome' = "raised")
          => /\ pc' = "Exited"
             /\ exit_status' \notin {None, Some(0)}
             /\ retry_count' = 0
             /\ sleep_secs' = sleep_secs]_vars

\* C6: when the first child has exited with code 0, the step that ends the
\* attempt counts it (retry_count = 1), does not exit, and starts a sleep of
\* 5 seconds; that sleep can end, and ends only in the next spawn (or a
\* termination signal); the spawn step is then possible and the loop leaves
\* it only by creating the second child or by Popen raising.
C6_CleanExitRetried ==
    /\ [][(/\ pc = "readline" /\ retry_count = 0
           /\ ~child.alive /\ child.code = Some(0)
           /\ outcome' \in {"exit", "eof"})
            => /\ retry_count' = 1
               /\ pc' = "sleep"
               /\ sleep_secs' = 5
               /\ exit_status' = None]_vars
    /\ [](pc = "sleep" /\ retry_count = 1 /\ outcome \in {"exit", "eof"}
            => ENABLED Wake)
    /\ [][(/\ pc = "sleep" /\ retry_count = 1 /\ outcome \in {"exit", "eof"}
           /\ pc' # "sleep" /\ signalled_at' = "none")
            => pc' = "spawn"]_vars
    /\ [](pc = "spawn" /\ retry_count = 1 => ENABLED PopenFork)
    /\ [][(pc = "spawn" /\ retry_count = 1 /\ pc' # "spawn" /\ signalled_at' = "none")
            => (pc' = "popen" /\ newborn') \/ outcome' = "raised"]_vars

C6_Witness ==
    /\ pc = "popen"
    /\ newborn
    /\ retry_count = 1
    /\ sleep_secs = 5
    /\ process # None
    /\ ~child.alive
    /\ child.code = Some(0)

\* C7: the exit status is 0 whenever the program stopped after a
\* termination signal or with the retries exhausted, and a non-zero status
\* occurs only before any child was spawned.
C7_ExitStatus ==
    pc = "Exited" =>
        /\ (signalled_at # "none" \/ retry_count >= max_retries)
              => exit_status = Some(0)
        /\ exit_status # Some(0)
              => (retry_count = 0 /\ process = None /\ ~newborn)

\* C8: with the stream key or the video URL absent (or empty) the program,
\* once past __init__, has exited with status 1 having made no request,
\* built no command and spawned no child.
C8_MissingConfigFailsFast ==
    (/\ pc # "init"
     /\ \/ env.YOUTUBE_STREAM_KEY \in {None, Some("")}
        \/ env.VIDEO_URL \in {None, Some("")})
        => /\ pc = "Exited"
           /\ exit_status = Some(1)
           /\ net_requests = 0
           /\ cmd = <<>>
           /\ retry_count = 0
           /\ process = None
           /\ ~newborn

C8_Witness ==
    /\ pc = "Exited"
    /\ env.YOUTUBE_STREAM_KEY = None
    /\ env.VIDEO_URL # None
    /\ exit_status = Some(1)

\* C9: download_video makes no request when the file exists and is
\* non-empty, and makes one in every other case (absent, or present but
\* empty).
C9_FetchUnlessNonEmpty ==
    [][(pc = "download" /\ pc' \in {"build", "fetching"})
          => IF file = "nonempty"
             THEN pc' = "build" /\ net_requests' = net_requests
             ELSE pc' = "fetching" /\ net_requests' = net_requests + 1]_vars

\* Labels a build can be given: the presets and some labels outside the table.
AllLabels == DOMAIN qualities \cup {"4k", ""}

\* The command built for another quality label, everything else the same.
OtherBuild(label) ==
    build_ffmpeg_command(VideoFile, ResolveSettings(label), rtmp_url[1])

\* Positions at which two argument sequences of the same length differ.
Differing(a, b) == {i \in 1..Len(a) : a[i] # b[i]}

\* Position i holds the value of one of the given options.
ValueOf(args, i, options) == i > 1 /\ args[i - 1] \in options

\* C10 as stated: in the command start_streaming has just built (cmd is not
\* assigned again), the destination is the last argument, and a build for
\* another quality label has the same length and differs only in the values
\* of frame size (-s), bitrate (-b:v, -maxrate), frame rate (-r) and
\* keyframe interval (-g).
C10_OnlyFourKindsDiffer ==
    (pc = "spawn" /\ retry_count = 0) =>
        /\ cmd[Len(cmd)] = rtmp_url[1]
        /\ \A label \in AllLabels :
              /\ Len(OtherBuild(label)) = Len(cmd)
              /\ \A i \in Differing(cmd, OtherBuild(label)) :
                    ValueOf(cmd, i, {"-s", "-b:v", "-maxrate", "-r", "-g"})

\* C10 amended: in the command start_streaming has just built, the
\* destination is the last argument, and a build for
\* another quality label has the same length and differs only in the values
\* of frame size, bitrate (-b:v, -maxrate), buffer size (-bufsize), frame
\* rate and keyframe interval.
C10_OnlyProfileValuesDiffer ==
    (pc = "spawn" /\ retry_count = 0) =>
        /\ cmd[Len(cmd)] = rtmp_url[1]
        /\ \A label \in AllLabels :
              /\ Len(OtherBuild(label)) = Len(cmd)
              /\ \A i \in Differing(cmd, OtherBuild(label)) :
                    ValueOf(cmd, i, {"-s", "-b:v", "-maxrate", "-bufsize", "-r", "-g"})

C10_Witness ==
    /\ pc = "spawn"
    /\ video_quality = Some("480p")
    /\ \E i \in Differing(cmd, OtherBuild("1080p")) : cmd[i - 1] = "-bufsize"
    /\ \E i \in Differing(cmd, OtherBuild("1080p")) : cmd[i - 1] = "-g"
    /\ Differing(cmd, OtherBuild("360p")) # {}

\* The value that follows an option in an argument sequence.
ArgOf(args, option) ==
    args[(CHOOSE i \in 1..(Len(args) - 1) : args[i] = option) + 1]

\* Largest number an argument of the command is read back as.
MaxArgNumber == 10000

\* The number n whose decimal form followed by the suffix is the argument
\* (-1 when there is none).
NumberIn(arg, suffix) ==
    IF \E n \in 0..MaxArgNumber : Str(n) \o suffix = arg
    THEN CHOOSE n \in 0..MaxArgNumber : Str(n) \o suffix = arg
    ELSE -1

\* C11: in the command built for label "720p", and for every label outside
\* the preset table, the frame size is 1280x720, the target bitrate 2500k,
\* the frame rate 30 and the keyframe interval 60; and in the command built
\* for any label the keyframe interval is twice the frame rate and the
\* buffer size is twice the target bitrate.
C11_DefaultPresetAndDoubling ==
    (pc = "spawn" /\ retry_count = 0) =>
        /\ \A label \in {"720p"} \cup (AllLabels \ DOMAIN qualities) :
              /\ ArgOf(OtherBuild(label), "-s") = "1280x720"
              /\ ArgOf(OtherBuild(label), "-b:v") = "2500k"
              /\ ArgOf(OtherBuild(label), "-r") = "30"
              /\ ArgOf(OtherBuild(label), "-g") = "60"
        /\ video_quality[1] \notin {"360p", "480p", "1080p"}
              => /\ ArgOf(cmd, "-s") = "1280x720"
                 /\ ArgOf(cmd, "-b:v") = "2500k"
                 /\ ArgOf(cmd, "-r") = "30"
                 /\ ArgOf(cmd, "-g") = "60"
        /\ \A label \in AllLabels :
              LET args == OtherBuild(label)
              IN  /\ NumberIn(ArgOf(args, "-r"), "") > 0
                  /\ NumberIn(ArgOf(args, "-g"), "") = 2 * NumberIn(ArgOf(args, "-r"), "")
                  /\ NumberIn(ArgOf(args, "-b:v"), "k") > 0
                  /\ NumberIn(ArgOf(args, "-bufsize"), "k")
                        = 2 * NumberIn(ArgOf(args, "-b:v"), "k")

C11_Witness ==
    /\ pc = "spawn"
    /\ retry_count = 0
    /\ video_quality = Some("4k")
    /\ ArgOf(cmd, "-g") = "60"
    /\ ArgOf(cmd, "-bufsize") = "5000k"

\* Number of children of this program that are running.
AliveChildren ==
    (IF child.alive THEN 1 ELSE 0) + (IF newborn THEN 1 ELSE 0) + Cardinality(orphans)

\* C12: at most one child is alive at any time; Popen creates a child only
\* when the previous one has exited.
C12_AtMostOneChildAlive ==
    /\ AliveChildren <= 1
    /\ newborn => ~child.alive

\* C13: when the program has stopped, every child that is still alive has
\* been sent a terminate request.
C13_AliveChildrenTerminatedAtExit ==
    pc = "Exited" =>
        /\ ~newborn
        /\ child.alive => child.term
        /\ "unsignalled" \notin orphans

\* C14: the step in which handle_shutdown runs in a state of the
\* supervision loop (spawning, monitoring or blocked in readline, sleeping)
\* is the step that stops the program, with status 0, whether or not the
\* child is still alive; the supervisor never stays in the loop after it.
C14_StopsInTheSignalStep ==
    /\ [][(InLoop /\ signalled_at' # signalled_at)
            => (pc' = "Exited" /\ exit_status' = Some(0))]_vars
    /\ [](signalled_at \in {"spawn", "popen", "readline", "sleep"}
            => pc = "Exited")
    /\ [](InLoop => ENABLED HandleShutdown)

C14_Witness ==
    /\ pc = "Exited"
    /\ signalled_at = "readline"
    /\ pipe = <<>>
    /\ child.alive
    /\ child.term
    /\ exit_status = Some(0)

\* C15: when an attempt ended because the child exited, the recorded return
\* code is the child's exit code and is never absent.
C15_ReturnCodeIsExitCode ==
    (outcome \in {"exit", "eof"} /\ pc \in {"sleep", "Exited"})
        => /\ return_code # None
           /\ return_code = child.code

\* C16: a spawn that raises while retry_count >= 1 adds one to retry_count,
\* stops the program with status 0 when retry_count has reached max_retries,
\* and otherwise starts a sleep of min(retry_count * 5, 30) seconds.
C16_SpawnErrorLikeErrorExit ==
    [][(pc = "spawn" /\ retry_count >= 1 /\ outcome' = "raised")
          => /\ retry_count' = retry_count + 1
             /\ IF retry_count' >= max_retries
                THEN pc' = "Exited" /\ exit_status' = Some(0)
                ELSE /\ pc' = "sleep"
                     /\ sleep_secs' = IF retry_count' * 5 <= 30
                                      THEN retry_count' * 5 ELSE 30]_vars

\* C17: retry_count stays within 0..max_retries; a step changes it only by
\* adding one, and does so exactly when it ends an attempt (child exit seen,
\* end of file, stall, or a raised error); every Popen call is made with
\* retry_count < max_retries.
C17_RetryCountBounded ==
    /\ [](retry_count \in 0..max_retries)
    /\ [](pc \in {"spawn", "popen", "readline"} => retry_count < max_retries)
    /\ [][retry_count' \in {retry_count, retry_count + 1}]_vars
    /\ [][(outcome' # outcome /\ outcome' \in {"exit", "eof", "stall", "raised"})
            => retry_count' = retry_count + 1]_vars
    /\ [][retry_count' # retry_count
            => /\ pc \in {"spawn", "readline"}
               /\ outcome = "none"
               /\ outcome' \in {"exit", "eof", "stall", "raised"}]_vars

C17_Witness ==
    /\ pc = "sleep"
    /\ retry_count = max_retries - 1
    /\ outcome = "raised"
    /\ orphans = {"signalled", "unsignalled"}

\* C18: each sleep the loop starts is at least as long as the one before it
\* (sleep_secs still holds the previous delay when the next one is chosen)
\* and at most 30 seconds.
C18_BackoffMonotonic ==
    [][(pc' = "sleep" /\ pc # "sleep")
          => (sleep_secs <= sleep_secs' /\ sleep_secs' <= 30)]_vars

\* C19: once the child has been observed to exit (poll saw it, or readline
\* returned end of file), self.process is None, during the backoff sleep
\* and after the program stopped.
C19_HandleClearedAfterExit ==
    (outcome \in {"exit", "eof"} /\ pc \in {"sleep", "Exited"})
        => process = None

====
